---- MODULE Spec2Model ----
(***************************************************************************)
(* State-machine model of sniprrr: the interaction loop of src/main.rs     *)
(* (run_app), the table navigation helpers of AppState, main's teardown    *)
(* and error report, and the persistence functions of src/file_utils.rs.   *)
(*                                                                         *)
(* Strings are sequences of one-character strings.  Option<T> is a         *)
(* sequence of length at most one: <<>> is None and <<x>> is Some(x).      *)
(*                                                                         *)
(* One action handles one event from event::read to the end of the match.  *)
(* ui (main.rs 234-357) only reads the application state and hands         *)
(* table_state to the table widget, so the selection is what the handlers  *)
(* leave.  usize is UsizeBits wide; messages.len() - 1 on an empty list    *)
(* either panics or wraps, as the build's overflow checks decide.          *)
(***************************************************************************)
EXTENDS Integers, Sequences, FiniteSets, TLC

VARIABLES
    title_input,          \* AppState.title_input
    description_input,    \* AppState.description_input
    focused_input_index,  \* AppState.focused_input_index
    input_mode,           \* AppState.input_mode
    messages,             \* AppState.messages
    selected,             \* AppState.table_state.selected()
    file,                 \* <config dir>/sniprrr/messages.json: None when absent
    clipboard,            \* the text last placed on the system clipboard
    stdout,               \* the lines println! has written
    terminal,             \* "raw" while the alternate screen is up, else "restored"
    event,                \* the event the loop read last
    writeCalls,           \* the calls of write_messages_to_file the last event made
    clipboardCalls,       \* the results of the clipboard calls the last event made
    pc,                   \* where main is
    res,                  \* the value run_app returned, once it has
    exit_code             \* the process exit status, once it has exited

vars == <<title_input, description_input, focused_input_index, input_mode,
          messages, selected, file, clipboard, stdout, terminal, event,
          writeCalls, clipboardCalls, pc, res, exit_code>>

app_state == <<title_input, description_input, focused_input_index, input_mode,
               messages, selected>>

----------------------------------------------------------------------------
(* Bounds of the model *)

\* the longest snippet list a commit may produce
MaxMessages == 2
\* the most characters held by the two buffers and all snippets together
MaxText == 1
\* the width of usize in bits
UsizeBits == 2

(* Program constants *)

MAX_INPUT_COUNT == 2
INPUT_TITLE_INDEX == 0
INPUT_DESCRIPTION_INDEX == 1

\* the characters a KeyCode::Char event carries
Chars == {"e", "c", "j", "k", "q", "\""}

\* the characters pressed while editing
TypedChars == {"q"}

None == <<>>
Some(x) == <<x>>
is_none(o) == o = <<>>
is_some(o) == o # <<>>
unwrap(o) == o[1]

USIZE_MAX == 2^UsizeBits - 1

----------------------------------------------------------------------------
(* models.rs *)

Snippet(t, d) == [title |-> t, description |-> d]

----------------------------------------------------------------------------
(* serde_json::to_string::<Vec<Snippet>> and from_str::<Vec<Snippet>> on   *)
(* the texts the program writes.                                           *)

\* a writer of string literals that escapes nothing
escape_nothing(s) == s

RECURSIVE escape(_)
escape(s) ==
    IF s = <<>> THEN <<>>
    ELSE (IF Head(s) = "\"" THEN <<"\\", "\"">>
          ELSE IF Head(s) = "\\" THEN <<"\\", "\\">>
          ELSE <<Head(s)>>) \o escape(Tail(s))

json_string(s) == <<"\"">> \o escape(s) \o <<"\"">>

TITLE_KEY == <<"\"", "t", "i", "t", "l", "e", "\"", ":">>
DESCRIPTION_KEY ==
    <<"\"", "d", "e", "s", "c", "r", "i", "p", "t", "i", "o", "n", "\"", ":">>

json_snippet(m) ==
    <<"{">> \o TITLE_KEY \o json_string(m.title) \o <<",">>
            \o DESCRIPTION_KEY \o json_string(m.description) \o <<"}">>

RECURSIVE json_elements(_)
json_elements(ms) ==
    IF ms = <<>> THEN <<>>
    ELSE IF Len(ms) = 1 THEN json_snippet(ms[1])
    ELSE json_snippet(Head(ms)) \o <<",">> \o json_elements(Tail(ms))

to_string(ms) == <<"[">> \o json_elements(ms) \o <<"]">>

\* Parsers take the text and a position and return [ok, val, pos].
Fail == [ok |-> FALSE, val |-> <<>>, pos |-> 0]
Done(v, p) == [ok |-> TRUE, val |-> v, pos |-> p]

\* the literal lit stands at position p of text t
expect(t, p, lit) ==
    /\ p + Len(lit) - 1 <= Len(t)
    /\ \A i \in 1..Len(lit) : t[p + i - 1] = lit[i]

\* the characters of a string literal after its opening quote
RECURSIVE parse_chars(_, _, _)
parse_chars(t, p, acc) ==
    IF p > Len(t) THEN Fail
    ELSE IF t[p] = "\"" THEN Done(acc, p + 1)
    ELSE IF t[p] = "\\"
         THEN IF p + 1 <= Len(t) /\ t[p + 1] \in {"\"", "\\"}
              THEN parse_chars(t, p + 2, Append(acc, t[p + 1]))
              ELSE Fail
    ELSE parse_chars(t, p + 1, Append(acc, t[p]))

parse_string(t, p) ==
    IF expect(t, p, <<"\"">>) THEN parse_chars(t, p + 1, <<>>) ELSE Fail

parse_snippet(t, p) ==
    IF ~expect(t, p, <<"{">> \o TITLE_KEY) THEN Fail
    ELSE LET ti == parse_string(t, p + 1 + Len(TITLE_KEY)) IN
         IF ~ti.ok \/ ~expect(t, ti.pos, <<",">> \o DESCRIPTION_KEY) THEN Fail
         ELSE LET de == parse_string(t, ti.pos + 1 + Len(DESCRIPTION_KEY)) IN
              IF ~de.ok \/ ~expect(t, de.pos, <<"}">>) THEN Fail
              ELSE Done(Snippet(ti.val, de.val), de.pos + 1)

\* the elements of the array after its first one
RECURSIVE parse_rest(_, _, _)
parse_rest(t, p, acc) ==
    IF expect(t, p, <<"]">>)
    THEN (IF p = Len(t) THEN Done(acc, p + 1) ELSE Fail)
    ELSE IF ~expect(t, p, <<",">>) THEN Fail
    ELSE LET sn == parse_snippet(t, p + 1) IN
         IF ~sn.ok THEN Fail ELSE parse_rest(t, sn.pos, Append(acc, sn.val))

from_str(t) ==
    IF ~expect(t, 1, <<"[">>) THEN Fail
    ELSE IF expect(t, 2, <<"]">>)
         THEN (IF Len(t) = 2 THEN Done(<<>>, 3) ELSE Fail)
    ELSE LET sn == parse_snippet(t, 2) IN
         IF ~sn.ok THEN Fail ELSE parse_rest(t, sn.pos, <<sn.val>>)

----------------------------------------------------------------------------
(* file_utils.rs *)

\* what the file system does to one call of write_messages_to_file
WriteOutcomes == {"ok", "no_config_dir", "create_dir_fails", "write_fails"}

\* what the file system does to load_messages_from_file
LoadOutcomes == {"ok", "no_config_dir", "read_fails"}

\* the io::Result of write_messages_to_file
write_messages_to_file(data, outcome) ==
    IF outcome = "no_config_dir" THEN <<"Err", "io::Error">>
    ELSE IF outcome = "create_dir_fails" THEN <<"Err", "io::Error">>
    ELSE IF outcome = "write_fails" THEN <<"Err", "io::Error">>
    ELSE <<"Ok">>

\* the file after write_messages_to_file: fs::write truncates, then writes
file_after_write(old, data, outcome) ==
    IF outcome = "ok" THEN Some(data)
    ELSE IF outcome = "write_fails" THEN Some(<<>>)
    ELSE old

\* load_messages_from_file without the test of the config directory
load_ignoring_config_dir(f, outcome) ==
    IF is_none(f) THEN <<>>
    ELSE IF outcome = "read_fails" THEN <<>>
    ELSE LET snippets == from_str(unwrap(f)) IN
         IF snippets.ok THEN snippets.val ELSE <<>>

load_messages_from_file(f, outcome) ==
    IF outcome = "no_config_dir" THEN <<>>
    ELSE IF is_none(f) THEN <<>>
    ELSE IF outcome = "read_fails" THEN <<>>
    ELSE LET snippets == from_str(unwrap(f)) IN
         IF snippets.ok THEN snippets.val ELSE <<>>

----------------------------------------------------------------------------
(* main.rs: AppState *)

\* a - b in usize when overflow checks are off
wrapping_sub(a, b) == (a - b) % (2^UsizeBits)

\* AppState::next evaluates messages.len() - 1 on an empty list: a panic when
\* overflow checks are on, a wrap to usize::MAX when they are off
next_overflows(sel, len) == is_some(sel) /\ len = 0

\* AppState::previous does
previous_overflows(sel, len) == sel = Some(0) /\ len = 0

\* AppState::next: the index it selects
next(sel, len) ==
    IF is_none(sel) THEN 0
    ELSE IF unwrap(sel) >= wrapping_sub(len, 1) THEN 0
    ELSE unwrap(sel) + 1

\* AppState::previous: the index it selects
previous(sel, len) ==
    IF is_none(sel) THEN 0
    ELSE IF unwrap(sel) = 0 THEN wrapping_sub(len, 1)
    ELSE unwrap(sel) - 1

\* Vec::remove(index), index counted from 0
remove(ms, index) == SubSeq(ms, 1, index) \o SubSeq(ms, index + 2, Len(ms))

\* Vec::get(index), index counted from 0
get(ms, index) == IF index < Len(ms) THEN Some(ms[index + 1]) ELSE None

get_selected_snippet(sel, ms) ==
    IF is_none(sel) THEN None ELSE get(ms, unwrap(sel))

\* Vec::push at the wrong end
push_front(ms, m) == <<m>> \o ms

\* Vec::push
push(ms, m) == Append(ms, m)

\* String::clear that clears nothing
clear_nothing(s) == s

\* String::clear
clear(s) == <<>>

\* a pop that removes nothing
pop_nothing(s) == s

\* String::pop
pop(s) == IF s = <<>> THEN s ELSE SubSeq(s, 1, Len(s) - 1)

----------------------------------------------------------------------------
(* main.rs: the events run_app reads *)

KeyCodes ==
    {<<"Char", c>> : c \in Chars}
        \cup {<<"Delete">>, <<"Backspace">>, <<"Down">>, <<"Up">>,
              <<"Enter">>, <<"Tab">>, <<"Esc">>}

KeyEventKinds == {"Press", "Release"}

Key(code, kind) == [type |-> "Key", code |-> code, kind |-> kind]
KeyEvents == {Key(code, kind) : code \in KeyCodes, kind \in KeyEventKinds}

\* an event that is no Event::Key
Resize == [type |-> "Resize", code |-> <<>>, kind |-> "None"]
\* terminal.draw or event::read returned an error
ReadError == [type |-> "Err", code |-> <<>>, kind |-> "None"]
\* nothing read yet
NoEvent == [type |-> "None", code |-> <<>>, kind |-> "None"]

\* the characters the buffers and the snippets hold
RECURSIVE text_of(_)
text_of(ms) ==
    IF ms = <<>> THEN 0
    ELSE Len(Head(ms).title) + Len(Head(ms).description) + text_of(Tail(ms))

TextSize == Len(title_input) + Len(description_input) + text_of(messages)

----------------------------------------------------------------------------
(* main.rs: Init is main at its call of run_app *)

\* a file written by an earlier run: the snippets (q, ") and (\, empty)
WrittenFile ==
    <<"[", "{">> \o TITLE_KEY \o <<"\"", "q", "\"", ",">>
        \o DESCRIPTION_KEY \o <<"\"", "\\", "\"", "\"", "}", ",", "{">>
        \o TITLE_KEY \o <<"\"", "\\", "\\", "\"", ",">>
        \o DESCRIPTION_KEY \o <<"\"", "\"", "}", "]">>

\* the file at start: absent, empty, no array of snippets, an empty array, or
\* the file of an earlier run
InitialFiles ==
    {None, Some(<<>>), Some(<<"[", "{", "}", "]">>), Some(<<"[", "]">>),
     Some(WrittenFile)}

Init ==
    /\ file \in InitialFiles
    /\ \E outcome \in LoadOutcomes :
           messages = load_messages_from_file(file, outcome)
    /\ title_input = <<>>
    /\ description_input = <<>>
    /\ focused_input_index = INPUT_TITLE_INDEX
    /\ input_mode = "Normal"
    /\ selected = None
    /\ clipboard = None
    /\ stdout = {}
    /\ terminal = "raw"
    /\ event = NoEvent
    /\ writeCalls = <<>>
    /\ clipboardCalls = <<>>
    /\ pc = "run_app"
    /\ res = None
    /\ exit_code = None

----------------------------------------------------------------------------
(* main.rs: run_app, one action for each arm of the match on the key *)

\* what an event leaves alone unless its arm says otherwise
world == <<file, clipboard, stdout, terminal, exit_code>>

\* the event calls neither the file system nor the clipboard
no_calls == writeCalls' = <<>> /\ clipboardCalls' = <<>>

\* run_app goes round the loop again
continue == pc' = pc /\ res' = res

\* run_app returns r to main
return(r) == pc' = "teardown" /\ res' = Some(r)

\* a panic unwinds main: nothing restores the terminal, the status is 101
panic ==
    /\ pc' = "panicked"
    /\ exit_code' = Some(101)
    /\ UNCHANGED <<res, file, clipboard, stdout, terminal>>

\* persist without the `?`: the result of the write is dropped
persist_absorbing(ms, outcome) ==
    LET json == to_string(ms)
        r == write_messages_to_file(json, outcome) IN
    /\ writeCalls' = <<[data |-> json, result |-> r]>>
    /\ clipboardCalls' = <<>>
    /\ file' = file_after_write(file, json, outcome)
    /\ continue
    /\ UNCHANGED <<clipboard, stdout, terminal, exit_code>>

\* let json_string = to_string(&app_state.messages); write_messages_to_file(&json_string)?
persist(ms, outcome) ==
    LET json == to_string(ms)
        r == write_messages_to_file(json, outcome) IN
    /\ writeCalls' = <<[data |-> json, result |-> r]>>
    /\ clipboardCalls' = <<>>
    /\ file' = file_after_write(file, json, outcome)
    /\ IF r = <<"Ok">> THEN continue ELSE return(r)
    /\ UNCHANGED <<clipboard, stdout, terminal, exit_code>>

\* the loop reads ev: a key event of the given code in the given mode
reads(ev, mode, codes) ==
    /\ pc = "run_app"
    /\ input_mode = mode
    /\ ev.code \in codes
    /\ event' = ev

\* Normal_e that leaves the focus where it was
Normal_e_keeps_focus ==
    \E ev \in KeyEvents :
        /\ reads(ev, "Normal", {<<"Char", "e">>})
        /\ input_mode' = "Editing"
        /\ no_calls
        /\ continue
        /\ UNCHANGED <<focused_input_index, title_input, description_input,
                       messages, selected, world>>

Normal_e ==
    \E ev \in KeyEvents :
        /\ reads(ev, "Normal", {<<"Char", "e">>})
        /\ focused_input_index' = INPUT_TITLE_INDEX
        /\ input_mode' = "Editing"
        /\ no_calls
        /\ continue
        /\ UNCHANGED <<title_input, description_input, messages, selected, world>>

Normal_Delete ==
    \E ev \in KeyEvents :
        /\ reads(ev, "Normal", {<<"Delete">>, <<"Backspace">>})
        /\ UNCHANGED <<title_input, description_input, focused_input_index,
                       input_mode, selected>>
        /\ IF is_none(selected)
           THEN /\ no_calls
                /\ continue
                /\ UNCHANGED <<messages, world>>
           ELSE IF unwrap(selected) >= Len(messages)
           THEN \* Vec::remove: removal index out of bounds
                /\ no_calls
                /\ panic
                /\ UNCHANGED messages
           ELSE /\ messages' = remove(messages, unwrap(selected))
                /\ \E outcome \in WriteOutcomes : persist(messages', outcome)

\* what Clipboard::new and Clipboard::set_text do
ClipboardOutcomes == {"new_fails", "set_text_fails", "ok"}

\* Normal_c leaving the loop when set_text fails
Normal_c_exits_on_failure ==
    \E ev \in KeyEvents, outcome \in ClipboardOutcomes :
        /\ reads(ev, "Normal", {<<"Char", "c">>})
        /\ writeCalls' = <<>>
        /\ UNCHANGED <<app_state, file, terminal, exit_code>>
        /\ IF outcome = "new_fails"
           THEN /\ clipboardCalls' = <<"new: Err">>
                /\ stdout' = stdout \cup {<<"Err", "arboard::Error">>}
                /\ continue
                /\ UNCHANGED clipboard
           ELSE LET selected_snippet == get_selected_snippet(selected, messages) IN
                IF is_none(selected_snippet)
                THEN /\ clipboardCalls' = <<"new: Ok">>
                     /\ return(<<"Ok">>)
                     /\ UNCHANGED <<clipboard, stdout>>
                ELSE IF outcome = "ok"
                THEN /\ clipboardCalls' = <<"new: Ok", "set_text: Ok">>
                     /\ clipboard' = Some(unwrap(selected_snippet).description)
                     /\ return(<<"Ok">>)
                     /\ UNCHANGED stdout
                ELSE /\ clipboardCalls' = <<"new: Ok", "set_text: Err">>
                     /\ return(<<"Ok">>)
                     /\ UNCHANGED <<clipboard, stdout>>

Normal_c ==
    \E ev \in KeyEvents, outcome \in ClipboardOutcomes :
        /\ reads(ev, "Normal", {<<"Char", "c">>})
        /\ writeCalls' = <<>>
        /\ UNCHANGED <<app_state, file, terminal, exit_code>>
        /\ IF outcome = "new_fails"
           THEN /\ clipboardCalls' = <<"new: Err">>
                /\ stdout' = stdout \cup {<<"Err", "arboard::Error">>}
                /\ continue
                /\ UNCHANGED clipboard
           ELSE LET selected_snippet == get_selected_snippet(selected, messages) IN
                IF is_none(selected_snippet)
                THEN /\ clipboardCalls' = <<"new: Ok">>
                     /\ return(<<"Ok">>)
                     /\ UNCHANGED <<clipboard, stdout>>
                ELSE IF outcome = "ok"
                THEN /\ clipboardCalls' = <<"new: Ok", "set_text: Ok">>
                     /\ clipboard' = Some(unwrap(selected_snippet).description)
                     /\ return(<<"Ok">>)
                     /\ UNCHANGED stdout
                ELSE /\ clipboardCalls' = <<"new: Ok", "set_text: Err">>
                     /\ continue
                     /\ UNCHANGED <<clipboard, stdout>>

\* the arms that call AppState::next and AppState::previous share this;
\* overflow_checks is whether the build panics on arithmetic overflow
navigate(overflows, index) ==
    /\ no_calls
    /\ UNCHANGED <<title_input, description_input, focused_input_index,
                   input_mode, messages>>
    /\ \E overflow_checks \in (IF overflows THEN BOOLEAN ELSE {FALSE}) :
           IF overflows /\ overflow_checks
           THEN /\ panic
                /\ UNCHANGED selected
           ELSE /\ selected' = Some(index)
                /\ continue
                /\ UNCHANGED world

Normal_Down ==
    \E ev \in KeyEvents :
        /\ reads(ev, "Normal", {<<"Down">>, <<"Char", "j">>})
        /\ navigate(next_overflows(selected, Len(messages)),
                    next(selected, Len(messages)))

Normal_Up ==
    \E ev \in KeyEvents :
        /\ reads(ev, "Normal", {<<"Up">>, <<"Char", "k">>})
        /\ navigate(previous_overflows(selected, Len(messages)),
                    previous(selected, Len(messages)))

Normal_q ==
    \E ev \in KeyEvents :
        /\ reads(ev, "Normal", {<<"Char", "q">>})
        /\ no_calls
        /\ return(<<"Ok">>)
        /\ UNCHANGED <<app_state, world>>

\* the key codes the Normal arms name
NormalCodes ==
    {<<"Char", c>> : c \in {"e", "c", "j", "k", "q"}}
        \cup {<<"Delete">>, <<"Backspace">>, <<"Down">>, <<"Up">>}

\* an event changes nothing: the `_ => {}` arms and the events that are no key
ignore ==
    /\ no_calls
    /\ continue
    /\ UNCHANGED <<app_state, world>>

Normal_other ==
    \E ev \in KeyEvents :
        /\ reads(ev, "Normal", KeyCodes \ NormalCodes)
        /\ ignore

\* the Editing arm without its guard on key.kind
editing_any_kind(ev, codes) == reads(ev, "Editing", codes)

\* InputMode::Editing if key.kind == KeyEventKind::Press
editing(ev, codes) ==
    /\ reads(ev, "Editing", codes)
    /\ ev.kind = "Press"

\* a focus that does not advance
next_field_stuck(index) == index

next_field(index) == (index + 1) % MAX_INPUT_COUNT

Editing_Tab ==
    \E ev \in KeyEvents :
        /\ editing(ev, {<<"Tab">>})
        /\ focused_input_index' = next_field(focused_input_index)
        /\ no_calls
        /\ continue
        /\ UNCHANGED <<title_input, description_input, input_mode, messages,
                       selected, world>>

Editing_Enter ==
    \E ev \in KeyEvents :
        /\ editing(ev, {<<"Enter">>})
        /\ UNCHANGED selected
        /\ IF focused_input_index = MAX_INPUT_COUNT - 1
           THEN /\ Len(messages) < MaxMessages
                /\ messages' = push(messages, Snippet(title_input, description_input))
                /\ title_input' = clear(title_input)
                /\ description_input' = clear(description_input)
                /\ input_mode' = "Normal"
                /\ \E outcome \in WriteOutcomes : persist(messages', outcome)
                /\ UNCHANGED focused_input_index
           ELSE /\ focused_input_index' = next_field(focused_input_index)
                /\ no_calls
                /\ continue
                /\ UNCHANGED <<title_input, description_input, input_mode,
                               messages, world>>

Editing_Char ==
    \E ev \in KeyEvents :
        /\ editing(ev, {<<"Char", c>> : c \in TypedChars})
        /\ TextSize < MaxText
        /\ title_input' = IF focused_input_index = INPUT_TITLE_INDEX
                          THEN Append(title_input, ev.code[2]) ELSE title_input
        /\ description_input' = IF focused_input_index = INPUT_DESCRIPTION_INDEX
                                THEN Append(description_input, ev.code[2])
                                ELSE description_input
        /\ no_calls
        /\ continue
        /\ UNCHANGED <<focused_input_index, input_mode, messages, selected, world>>

\* KeyCode::Char(c) pressed, for every character an event carries
Editing_Char_any ==
    \E ev \in KeyEvents :
        /\ editing(ev, {<<"Char", c>> : c \in Chars})
        /\ TextSize < MaxText
        /\ title_input' = IF focused_input_index = INPUT_TITLE_INDEX
                          THEN Append(title_input, ev.code[2]) ELSE title_input
        /\ description_input' = IF focused_input_index = INPUT_DESCRIPTION_INDEX
                                THEN Append(description_input, ev.code[2])
                                ELSE description_input
        /\ no_calls
        /\ continue
        /\ UNCHANGED <<focused_input_index, input_mode, messages, selected, world>>

Editing_Backspace ==
    \E ev \in KeyEvents :
        /\ editing(ev, {<<"Backspace">>})
        /\ title_input' = IF focused_input_index = INPUT_TITLE_INDEX
                          THEN pop(title_input) ELSE title_input
        /\ description_input' = IF focused_input_index = INPUT_DESCRIPTION_INDEX
                                THEN pop(description_input) ELSE description_input
        /\ no_calls
        /\ continue
        /\ UNCHANGED <<focused_input_index, input_mode, messages, selected, world>>

Editing_Esc ==
    \E ev \in KeyEvents :
        /\ editing(ev, {<<"Esc">>})
        /\ input_mode' = "Normal"
        /\ no_calls
        /\ continue
        /\ UNCHANGED <<title_input, description_input, focused_input_index,
                       messages, selected, world>>

\* the key codes the Editing arms name
EditingCodes ==
    {<<"Char", c>> : c \in Chars}
        \cup {<<"Tab">>, <<"Enter">>, <<"Backspace">>, <<"Esc">>}

\* a pressed key no Editing arm names
Editing_other ==
    \E ev \in KeyEvents :
        /\ editing(ev, KeyCodes \ EditingCodes)
        /\ ignore

\* a key event in Editing mode whose kind is not Press
Editing_not_Press ==
    \E ev \in KeyEvents :
        /\ reads(ev, "Editing", KeyCodes)
        /\ ev.kind # "Press"
        /\ ignore

\* event::read returned an event that is no key
not_a_key ==
    /\ pc = "run_app"
    /\ event' = Resize
    /\ ignore

\* terminal.draw(..)? or event::read()? returned an error
read_error ==
    /\ pc = "run_app"
    /\ event' = ReadError
    /\ no_calls
    /\ return(<<"Err", "io::Error">>)
    /\ UNCHANGED <<app_state, world>>

----------------------------------------------------------------------------
(* main.rs: main after run_app *)

\* disable_raw_mode()?; execute!(LeaveAlternateScreen, DisableMouseCapture)?;
\* terminal.show_cursor()?
restore_terminal ==
    \E ok \in BOOLEAN :
        /\ pc = "teardown"
        /\ IF ok
           THEN /\ terminal' = "restored"
                /\ pc' = "report"
                /\ UNCHANGED exit_code
           ELSE \* main returns the error: the status is 1
                /\ pc' = "done"
                /\ exit_code' = Some(1)
                /\ UNCHANGED terminal
        /\ UNCHANGED <<app_state, file, clipboard, stdout, event, writeCalls,
                       clipboardCalls, res>>

\* report returning the error of run_app from main
report_returns_res ==
    /\ pc = "report"
    /\ stdout' = IF unwrap(res) = <<"Ok">> THEN stdout ELSE stdout \cup {unwrap(res)}
    /\ pc' = "done"
    /\ exit_code' = IF unwrap(res) = <<"Ok">> THEN Some(0) ELSE Some(1)
    /\ UNCHANGED <<app_state, file, clipboard, terminal, event, writeCalls,
                   clipboardCalls, res>>

\* if let Err(err) = res { println!("{:?}", err) }  Ok(())
report ==
    /\ pc = "report"
    /\ stdout' = IF unwrap(res) = <<"Ok">> THEN stdout ELSE stdout \cup {unwrap(res)}
    /\ pc' = "done"
    /\ exit_code' = Some(0)
    /\ UNCHANGED <<app_state, file, clipboard, terminal, event, writeCalls,
                   clipboardCalls, res>>

Next ==
    \/ Normal_e
    \/ Normal_Delete
    \/ Normal_c
    \/ Normal_Down
    \/ Normal_Up
    \/ Normal_q
    \/ Normal_other
    \/ Editing_Tab
    \/ Editing_Enter
    \/ Editing_Char
    \/ Editing_Backspace
    \/ Editing_Esc
    \/ Editing_other
    \/ Editing_not_Press
    \/ not_a_key
    \/ read_error
    \/ restore_terminal
    \/ report

Spec == Init /\ [][Next]_vars

\* an editing session: every character key is pressed while editing, and
\* while browsing only e, q and the keys no arm names
NextTyping ==
    \/ Normal_e
    \/ Normal_q
    \/ Normal_other
    \/ Editing_Tab
    \/ Editing_Enter
    \/ Editing_Char_any
    \/ Editing_Backspace
    \/ Editing_Esc
    \/ Editing_other
    \/ Editing_not_Press
    \/ not_a_key
    \/ read_error
    \/ restore_terminal
    \/ report

SpecTyping == Init /\ [][NextTyping]_vars

----------------------------------------------------------------------------
(* Properties *)

\* the loop is reading events
Running == pc = "run_app"

\* the step handles a key event of one of the codes, read in the given mode
Handles(mode, codes) ==
    /\ Running
    /\ input_mode = mode
    /\ event'.type = "Key"
    /\ event'.code \in codes

\* C1: whenever the snippet list is non-empty and a selection is present,
\* the selection is an index of the list: 0 <= selection < len(snippets).
C1_SelectionIsIndex ==
    (messages # <<>> /\ is_some(selected)) => unwrap(selected) < Len(messages)

\* C9: whenever the snippet list is empty, the selection is absent.
C9_EmptyListNoSelection ==
    messages = <<>> => is_none(selected)

\* n applications of AppState::next to the selection i of a list of len snippets
RECURSIVE next_n(_, _, _)
next_n(i, len, n) ==
    IF n = 0 THEN i ELSE next_n(next(Some(i), len), len, n - 1)

\* n applications of AppState::previous
RECURSIVE previous_n(_, _, _)
previous_n(i, len, n) ==
    IF n = 0 THEN i ELSE previous_n(previous(Some(i), len), len, n - 1)

\* C8: in a Browsing state with N >= 1 snippets and a selection, N presses of
\* j return the selection to where it was, and so do N presses of k; one j
\* from the last index selects 0 and one k from index 0 selects N - 1.
C8_NavigationCycles ==
    (Running /\ input_mode = "Normal" /\ Len(messages) >= 1 /\ is_some(selected)) =>
        LET N == Len(messages)
            i == unwrap(selected) IN
        /\ next_n(i, N, N) = i
        /\ previous_n(i, N, N) = i
        /\ (i = N - 1 => next(selected, N) = 0)
        /\ (i = 0 => previous(selected, N) = N - 1)

\* the step commits the edit: Enter is pressed on the last field
Commits ==
    /\ Handles("Editing", {<<"Enter">>})
    /\ event'.kind = "Press"
    /\ focused_input_index = MAX_INPUT_COUNT - 1

\* the step is Delete or Backspace in Browsing mode with a selection
DeletesSelection ==
    /\ Handles("Normal", {<<"Delete">>, <<"Backspace">>})
    /\ is_some(selected)

\* C2: a commit appends the one snippet made of the two buffers to the end of
\* the list, keeps the snippets before it, clears both buffers, sets the mode
\* to Browsing and hands the whole resulting list to the persistence write,
\* which leaves it in the file when it succeeds.
C2_CommitAppends ==
    [][Commits =>
        /\ messages' = Append(messages, Snippet(title_input, description_input))
        /\ title_input' = <<>>
        /\ description_input' = <<>>
        /\ input_mode' = "Normal"
        /\ Len(writeCalls') = 1
        /\ writeCalls'[1].data = to_string(messages')
        /\ (writeCalls'[1].result = <<"Ok">> => file' = Some(to_string(messages')))
      ]_vars

\* a commit of a non-empty title after one of two empty buffers
C2_Witness ==
    /\ event = Key(<<"Enter">>, "Press")
    /\ Len(writeCalls) = 1
    /\ Len(messages) = 2
    /\ messages[1] = Snippet(<<>>, <<>>)
    /\ messages[2].title # <<>>
    /\ input_mode = "Normal"

\* C3: the persistence write is called exactly once, with the whole list as it
\* is after the event, by each commit and by each Delete/Backspace in Browsing
\* mode that has a selection, and by no other event.
C3_WriteOncePerMutation ==
    [][Running =>
        IF Commits \/ DeletesSelection
        THEN Len(writeCalls') = 1 /\ writeCalls'[1].data = to_string(messages')
        ELSE writeCalls' = <<>>
      ]_vars

\* the last event called the persistence write and the write failed
WriteFailed == writeCalls # <<>> /\ writeCalls[1].result # <<"Ok">>

\* run_app returned Ok and the terminal was restored
CleanShutdown == res = Some(<<"Ok">>) /\ terminal = "restored"

\* C4 as claimed: the exit status is 0 on a clean shutdown, and after a failed
\* persistence write it is not 0 and the error is on standard output.
C4_NonZeroOnWriteFailure ==
    pc = "done" =>
        /\ (CleanShutdown => exit_code = Some(0))
        /\ (WriteFailed => exit_code # Some(0) /\ unwrap(res) \in stdout)

\* C4 as amended: the exit status is 0 on a clean shutdown; after a failed
\* persistence write, if the terminal is restored the error is on standard
\* output and the status is 0 all the same, and if restoring the terminal
\* fails the status is 1 and the error of the write is not printed.
C4_ExitStatus ==
    pc = "done" =>
        /\ (CleanShutdown => exit_code = Some(0))
        /\ (WriteFailed =>
               IF terminal = "restored"
               THEN exit_code = Some(0) /\ unwrap(res) \in stdout
               ELSE exit_code = Some(1) /\ unwrap(res) \notin stdout)

\* the process has ended after a failed write and a restored terminal
C4_Witness ==
    /\ pc = "done"
    /\ WriteFailed
    /\ terminal = "restored"
    /\ exit_code = Some(0)
    /\ unwrap(res) \in stdout

\* C5 as claimed: in Browsing mode both buffers are empty.
C5_BuffersEmptyInNormal ==
    input_mode = "Normal" => title_input = <<>> /\ description_input = <<>>

\* C5 as amended: a step that ends in Browsing mode ends with both buffers
\* empty, unless it is Esc leaving Editing mode or a step within Browsing
\* mode, and these leave both buffers as they were.
C5_BuffersInNormal ==
    [][input_mode' = "Normal" =>
        \/ title_input' = <<>> /\ description_input' = <<>>
        \/ /\ UNCHANGED <<title_input, description_input>>
           /\ \/ input_mode = "Normal"
              \/ event' = Key(<<"Esc">>, "Press")
      ]_vars

\* Esc has left Editing mode with text in the title buffer
C5_Witness ==
    /\ input_mode = "Normal"
    /\ event = Key(<<"Esc">>, "Press")
    /\ title_input # <<>>

\* the step is c in Browsing mode with a clipboard handle and a selected snippet
CopiesSelection ==
    /\ Handles("Normal", {<<"Char", "c">>})
    /\ is_some(get_selected_snippet(selected, messages))
    /\ Len(clipboardCalls') >= 1
    /\ clipboardCalls'[1] = "new: Ok"

\* run_app returns Ok in this step
ReturnsOk == Running /\ pc' = "teardown" /\ res' = Some(<<"Ok">>)

\* C6 as claimed: c in Browsing mode with a clipboard handle and a selection
\* ends the loop whether the copy succeeds or fails, and prints no error.
C6_ExitsAfterCopyAttempt ==
    [][CopiesSelection => ReturnsOk /\ stdout' = stdout]_vars

\* C6 as amended: c in Browsing mode with a clipboard handle and a selection
\* ends the loop cleanly with the description on the clipboard when the copy
\* succeeds; when the copy fails the loop goes on, with the application state
\* and the clipboard unchanged; in neither case is an error printed.
C6_ExitsAfterCopy ==
    [][CopiesSelection =>
        /\ stdout' = stdout
        /\ UNCHANGED app_state
        /\ IF clipboardCalls' = <<"new: Ok", "set_text: Ok">>
           THEN /\ ReturnsOk
                /\ clipboard' = Some(messages[unwrap(selected) + 1].description)
           ELSE /\ clipboardCalls' = <<"new: Ok", "set_text: Err">>
                /\ pc' = "run_app"
                /\ res' = None
                /\ UNCHANGED clipboard
      ]_vars

\* the copy of a selected snippet has failed and the loop goes on
C6_Witness ==
    /\ Running
    /\ event.code = <<"Char", "c">>
    /\ clipboardCalls = <<"new: Ok", "set_text: Err">>
    /\ is_some(get_selected_snippet(selected, messages))

\* C7: run_app returns Ok only on q in Browsing mode or on c in Browsing mode
\* with a selected snippet; c in Browsing mode with no snippet selected does
\* not end the loop and changes nothing of the application state.
C7_ExitOnlyOnQuitOrCopy ==
    [][/\ ReturnsOk =>
            /\ input_mode = "Normal"
            /\ event'.type = "Key"
            /\ \/ event'.code = <<"Char", "q">>
               \/ /\ event'.code = <<"Char", "c">>
                  /\ is_some(get_selected_snippet(selected, messages))
       /\ (/\ Handles("Normal", {<<"Char", "c">>})
           /\ is_none(get_selected_snippet(selected, messages))) =>
                pc' = "run_app" /\ UNCHANGED app_state
      ]_vars

\* C10: a failed persistence write ends the loop at that event with the error
\* as the result of run_app; no event is handled after it; and the error is
\* printed only once the terminal has been restored.
C10_WriteFailureIsFatal ==
    [][/\ WriteFailed' => pc' # "run_app" /\ res' = Some(writeCalls'[1].result)
       /\ WriteFailed => event' = event /\ UNCHANGED app_state
       /\ (WriteFailed /\ unwrap(res) \in stdout' /\ unwrap(res) \notin stdout) =>
              terminal = "restored" /\ pc = "report"
      ]_vars

\* the error of a failed write has been printed, after the terminal was restored
C10_Witness ==
    /\ WriteFailed
    /\ pc = "done"
    /\ terminal = "restored"
    /\ unwrap(res) \in stdout

\* the last event called the persistence write and the write succeeded
WriteSucceeded == writeCalls # <<>> /\ writeCalls[1].result = <<"Ok">>

\* C11: after a commit or a delete whose write succeeded, loading the file
\* returns the snippet list in memory: same titles, descriptions and order.
C11_SaveThenLoad ==
    WriteSucceeded => load_messages_from_file(file, "ok") = messages

\* a list holding a quote and a backslash has been written
C11_Witness ==
    /\ WriteSucceeded
    /\ \E i \in 1..Len(messages) :
           messages[i].description = <<"\"">> \/ messages[i].title = <<"\\">>

\* no event has been read: main is at its call of run_app
AtStart == event = NoEvent

\* C12: load returns the empty list, and never an error, when the config
\* directory is unavailable or the file is missing, unreadable, empty or no
\* JSON array of snippets; the application then starts in Browsing mode with
\* an empty list and no selection.
C12_LoadDegradesToEmpty ==
    AtStart =>
        /\ \A outcome \in LoadOutcomes :
               (\/ outcome \in {"no_config_dir", "read_fails"}
                \/ is_none(file)
                \/ unwrap(file) = <<>>
                \/ ~from_str(unwrap(file)).ok)
                   => load_messages_from_file(file, outcome) = <<>>
        /\ (is_none(file) \/ ~from_str(unwrap(file)).ok) => messages = <<>>
        /\ \E outcome \in LoadOutcomes :
               messages = load_messages_from_file(file, outcome)
        /\ input_mode = "Normal"
        /\ selected = None
        /\ Running
        /\ res = None

\* the application has started on a file that holds no JSON array of snippets
C12_Witness ==
    /\ AtStart
    /\ is_some(file)
    /\ unwrap(file) # <<>>
    /\ ~from_str(unwrap(file)).ok
    /\ messages = <<>>

\* the step is a key press of one of the codes in Editing mode
Presses(codes) == Handles("Editing", codes) /\ event'.kind = "Press"

\* C13: focused_input_index is 0 or 1 in every state; a Tab press in Editing
\* mode, and an Enter press when the focus is not on the last field, set it to
\* (focused_input_index + 1) mod 2 and change neither the buffers, the
\* snippets, the selection nor the mode, and write nothing; so two Tab presses
\* from field 0 return the focus to field 0.
C13_FieldCycling ==
    [][/\ focused_input_index \in 0..(MAX_INPUT_COUNT - 1)
       /\ focused_input_index' \in 0..(MAX_INPUT_COUNT - 1)
       /\ (\/ Presses({<<"Tab">>})
           \/ Presses({<<"Enter">>}) /\ focused_input_index # MAX_INPUT_COUNT - 1) =>
              /\ focused_input_index' = (focused_input_index + 1) % MAX_INPUT_COUNT
              /\ (focused_input_index' + 1) % MAX_INPUT_COUNT = focused_input_index
              /\ UNCHANGED <<title_input, description_input, messages, selected,
                             input_mode, file>>
              /\ writeCalls' = <<>>
              /\ pc' = "run_app"
      ]_vars

\* a Tab press has brought the focus back from the last field to field 0
C13_Witness ==
    /\ event = Key(<<"Tab">>, "Press")
    /\ input_mode = "Editing"
    /\ focused_input_index = 0

\* the key codes of the navigation arms
NavigationCodes == {<<"Down">>, <<"Char", "j">>, <<"Up">>, <<"Char", "k">>}

\* C14: with an empty snippet list, j/Down and k/Up in Browsing mode change
\* nothing: not the selection, the list, the buffers or the mode.
C14_NavigationOnEmptyList ==
    [][(Handles("Normal", NavigationCodes) /\ messages = <<>>) =>
           UNCHANGED app_state /\ pc' = "run_app"
      ]_vars

\* C15: Delete/Backspace in Browsing mode with a selection i removes the
\* snippet at position i and no other, keeps the order of the rest, and hands
\* the resulting list to the persistence write, which leaves it in the file
\* when it succeeds; with no selection the key changes neither list nor file.
C15_DeleteRemovesSelected ==
    [][/\ DeletesSelection =>
            LET i == unwrap(selected) IN
            /\ Len(messages') = Len(messages) - 1
            /\ \A k \in 1..Len(messages') :
                   messages'[k] = IF k <= i THEN messages[k] ELSE messages[k + 1]
            /\ Len(writeCalls') = 1
            /\ writeCalls'[1].data = to_string(messages')
            /\ (writeCalls'[1].result = <<"Ok">> => file' = Some(to_string(messages')))
       /\ (Handles("Normal", {<<"Delete">>, <<"Backspace">>}) /\ is_none(selected)) =>
            UNCHANGED <<messages, file>> /\ writeCalls' = <<>>
      ]_vars

\* C16: Esc in Editing mode sets the mode to Browsing and leaves the buffers,
\* the snippet list, the selection and the file as they were; e in Browsing
\* mode then enters Editing mode with the same buffers and the focus on the
\* title field, whatever field had it before.
C16_EscKeepsBuffers ==
    [][/\ Presses({<<"Esc">>}) =>
            /\ input_mode' = "Normal"
            /\ UNCHANGED <<title_input, description_input, messages, selected, file>>
            /\ writeCalls' = <<>>
       /\ Handles("Normal", {<<"Char", "e">>}) =>
            /\ input_mode' = "Editing"
            /\ focused_input_index' = INPUT_TITLE_INDEX
            /\ UNCHANGED <<title_input, description_input, messages, selected, file>>
            /\ writeCalls' = <<>>
      ]_vars

\* e has re-entered Editing mode with text kept in the description buffer
C16_Witness ==
    /\ event.code = <<"Char", "e">>
    /\ input_mode = "Editing"
    /\ description_input # <<>>
    /\ focused_input_index = INPUT_TITLE_INDEX

\* the buffer that has the focus, and the other one
focused_buffer(index, title, description) ==
    IF index = INPUT_TITLE_INDEX THEN title ELSE description
other_buffer(index, title, description) ==
    IF index = INPUT_TITLE_INDEX THEN description ELSE title

C18_OnlyPressesInEditing ==
    [][(Handles("Editing", KeyCodes) /\ event'.kind # "Press") =>
           /\ UNCHANGED <<app_state, file, clipboard, stdout>>
           /\ writeCalls' = <<>>
           /\ clipboardCalls' = <<>>
           /\ pc' = "run_app"
      ]_vars

\* the release of Enter has been read with the focus on the last field
C18_Witness ==
    /\ event = Key(<<"Enter">>, "Release")
    /\ input_mode = "Editing"
    /\ focused_input_index = MAX_INPUT_COUNT - 1
    /\ Running

\* C19: no sequence of key events makes the handler abort: Delete/Backspace
\* removes at an index of the list and j/k never compute len - 1 on an empty
\* list, so the loop ends only by a clean exit or a propagated I/O error.
C19_NoPanic ==
    /\ pc # "panicked"
    /\ (Running /\ input_mode = "Normal" /\ is_some(selected)) =>
           /\ unwrap(selected) < Len(messages)
           /\ ~next_overflows(selected, Len(messages))
           /\ ~previous_overflows(selected, Len(messages))

\* C20: the release of a key in Browsing mode changes no state and triggers
\* no persistence, clipboard call or exit.
C20_ReleaseIgnoredInNormal ==
    [][(Handles("Normal", KeyCodes) /\ event'.kind = "Release") =>
           /\ UNCHANGED <<app_state, file, clipboard, stdout>>
           /\ writeCalls' = <<>>
           /\ clipboardCalls' = <<>>
           /\ pc' = "run_app"
      ]_vars

====
